---- MODULE Spec2Model ----
(***************************************************************************)
(* A model of canary.py (nixpkgs-upkeep): the stream multiplexer run(),    *)
(* the failure classification, the log normalizer, the two tags, the       *)
(* dedup search and the issue creation.                                    *)
(*                                                                         *)
(* Four specifications share the module:                                   *)
(*   SpecRun   run(): a child process writing to two pipes and the         *)
(*             select/readline/poll loop that drains them;                 *)
(*   SpecRunFair  the same with run() scheduled fairly and a child that    *)
(*             may leave a process of its own holding the pipes;           *)
(*   Spec      the script from the build result to sys.exit, run by two    *)
(*             independent processes against one issue tracker;            *)
(*   SpecNorm  the substitution passes, once and once more, and logs_tag   *)
(*             on two excerpts that differ only in volatile substrings.    *)
(* Text is a sequence of one-character strings.                            *)
(***************************************************************************)
EXTENDS Integers, Sequences, FiniteSets, TLC

VARIABLES
    \* ---- run() ----
    pending,      \* the child's write() in progress: [fd, data], or None
    written,      \* per stream: the bytes the child has put into the pipe
    pipe,         \* per stream: the bytes in the kernel pipe
    wopen,        \* per stream: the child's write end is open
    returncode,   \* the child's exit status, None while it runs
    rbuf,         \* per stream: p.stdout / p.stderr BufferedReader content
    mpc,          \* where run() is: select, readline, check, returned
    r,            \* the ready descriptors still to visit in `for fd in r`
    fd,           \* the descriptor being read
    no_read,
    stdout,       \* run()'s capture lists
    stderr,
    console,      \* per stream: what run() wrote to sys.stdout / sys.stderr
    result,       \* the ProcessResult returned, None before
    \* ---- the script, per process ----
    pc,           \* where the process is in the script
    hashSeed,     \* the secret its interpreter keys hash() with
    build_result, \* the ProcessResult of the build, None before
    exit_code,    \* the code the process exited with, None while it runs
    outcome,      \* how the run went: Running, Success, NotReportable,
                  \* Unclassifiable, Classified, AlreadyReported, Reported, Fatal
    stages,       \* the stages the process has performed, in order
    failing_drv_hash,
    failing_pname_version,
    last_10_log_lines,
    last_10_log_lines_pure,
    logs_tag,
    drv_tag,
    sleeping,     \* the duration of the time.sleep in progress, None otherwise
    existing_issues_count,  \* total_count of the last search, None before
    \* ---- the issue tracker ----
    issues,       \* the issues created so far, all visible to the search
    \* ---- the substitution passes on two excerpts ----
    excerpts,     \* two last_10_log_lines, alike but for volatile substrings
    pures,        \* the two joined texts, with the passes done so far applied
    npass,        \* the number of passes done
    tags,         \* the two logs_tag values, None before line 151
    repures       \* the passes applied once more to pures, None before

runVars == <<pending, written, pipe, wopen, returncode, rbuf, mpc, r, fd,
             no_read, stdout, stderr, console, result>>

pipeVars == <<pc, hashSeed, build_result, exit_code, outcome, stages,
              failing_drv_hash, failing_pname_version, last_10_log_lines,
              last_10_log_lines_pure, logs_tag, drv_tag, sleeping,
              existing_issues_count, issues>>

normVars == <<excerpts, pures, npass, tags, repures>>

vars == <<runVars, pipeVars, normVars>>

\* Python's None: an optional value is the empty sequence or a one-element sequence
None == <<>>
Some(x) == <<x>>
The(o) == o[1]

----------------------------------------------------------------------------
(* Text helpers *)

IsPrefix(s, t) == Len(s) <= Len(t) /\ SubSeq(t, 1, Len(s)) = s

\* s[i..] starts with the literal lit
StartsWithAt(s, i, lit) ==
    /\ i + Len(lit) - 1 <= Len(s)
    /\ \A k \in 1..Len(lit) : s[i + k - 1] = lit[k]

Contains(s, lit) == \E i \in 1..(Len(s) - Len(lit) + 1) : StartsWithAt(s, i, lit)

RECURSIVE JoinRange(_, _, _)
\* lines[lo] \o ... \o lines[hi], by halves
JoinRange(lines, lo, hi) ==
    IF lo > hi THEN <<>>
    ELSE IF lo = hi THEN lines[lo]
    ELSE JoinRange(lines, lo, (lo + hi) \div 2)
           \o JoinRange(lines, (lo + hi) \div 2 + 1, hi)

\* "".join(lines)
Join(lines) == JoinRange(lines, 1, Len(lines))

\* 1-based index of the first "\n" of s, 0 when there is none
NewlineAt(s) ==
    IF \E i \in 1..Len(s) : s[i] = "\n"
    THEN CHOOSE i \in 1..Len(s) : s[i] = "\n" /\ \A j \in 1..(i - 1) : s[j] # "\n"
    ELSE 0

RECURSIVE SplitLines(_)
\* the lines of a byte stream, each with its "\n", the last possibly without
SplitLines(s) ==
    IF s = <<>> THEN <<>>
    ELSE IF NewlineAt(s) = 0 THEN <<s>>
    ELSE <<SubSeq(s, 1, NewlineAt(s))>> \o SplitLines(SubSeq(s, NewlineAt(s) + 1, Len(s)))

----------------------------------------------------------------------------
(* run(): the child and its two pipes *)

Fds == {"stdout", "stderr"}

Bytes == {"a", "\n"}

\* capacity of a kernel pipe, in bytes
PipeCap == 2
\* size of one raw read of a BufferedReader, in bytes
BufSize == 2
\* the most bytes the child writes to one stream
MaxWritten == 3
\* the longest single write() of the child
MaxChunk == 3

ExitCodes == {0, 1}

Chunks == UNION { [1..n -> Bytes] : n \in 1..MaxChunk }

\* bytes the child has asked to write to stream s, in the pipe or pending
Asked(s) ==
    Len(written[s])
        + (IF pending # None /\ The(pending).fd = s
           THEN Len(The(pending).data) ELSE 0)

\* the child calls write(fd, data); the call returns when all of data is in the pipe
ChildWrite(s, data) ==
    /\ returncode = None
    /\ pending = None
    /\ wopen[s]
    /\ Asked(s) + Len(data) <= MaxWritten
    /\ pending' = Some([fd |-> s, data |-> data])
    /\ UNCHANGED <<pipeVars, normVars, written, pipe, wopen, returncode, rbuf,
                   mpc, r, fd, no_read, stdout, stderr, console, result>>

\* the kernel moves what fits of the pending write into the pipe; the child
\* stays blocked in write() while the pipe is full
ChildPush ==
    /\ pending # None
    /\ Len(pipe[The(pending).fd]) < PipeCap
    /\ LET s == The(pending).fd
           data == The(pending).data
           n == IF Len(data) <= PipeCap - Len(pipe[s])
                THEN Len(data) ELSE PipeCap - Len(pipe[s])
           moved == SubSeq(data, 1, n)
           rest == SubSeq(data, n + 1, Len(data))
       IN /\ pipe' = [pipe EXCEPT ![s] = @ \o moved]
          /\ written' = [written EXCEPT ![s] = @ \o moved]
          /\ pending' = IF rest = <<>> THEN None ELSE Some([fd |-> s, data |-> rest])
    /\ UNCHANGED <<pipeVars, normVars, wopen, returncode, rbuf, mpc, r, fd,
                   no_read, stdout, stderr, console, result>>

\* the child closes one of its output streams and keeps running
ChildClose(s) ==
    /\ returncode = None
    /\ pending = None
    /\ wopen[s]
    /\ wopen' = [wopen EXCEPT ![s] = FALSE]
    /\ UNCHANGED <<pipeVars, normVars, pending, written, pipe, returncode,
                   rbuf, mpc, r, fd, no_read, stdout, stderr, console,
                   result>>

\* the child exits: its descriptors are closed and its status is there for poll()
ChildExit(code) ==
    /\ returncode = None
    /\ pending = None
    /\ wopen' = [s \in Fds |-> FALSE]
    /\ returncode' = Some(code)
    /\ UNCHANGED <<pipeVars, normVars, pending, written, pipe, rbuf, mpc, r,
                   fd, no_read, stdout, stderr, console, result>>

\* the child exits while a process it started still holds the write ends of
\* the pipes it inherited (line 48: both are handed to the child): its status
\* is there for poll(), and no pipe comes to end of file
ChildExitHeld(code) ==
    /\ returncode = None
    /\ pending = None
    /\ \E s \in Fds : wopen[s]
    /\ returncode' = Some(code)
    /\ UNCHANGED <<pipeVars, normVars, pending, written, pipe, wopen, rbuf,
                   mpc, r, fd, no_read, stdout, stderr, console, result>>

\* that process exits in its turn, and the pipes come to end of file
DescendantExit ==
    /\ returncode # None
    /\ \E s \in Fds : wopen[s]
    /\ wopen' = [s \in Fds |-> FALSE]
    /\ UNCHANGED <<pipeVars, normVars, pending, written, pipe, returncode,
                   rbuf, mpc, r, fd, no_read, stdout, stderr, console,
                   result>>

----------------------------------------------------------------------------
(* run(): the loop of lines 53-75 *)

\* select() reports a pipe readable when it holds data or is at end of file
Readable(s) == pipe[s] # <<>> \/ ~wopen[s]

\* the descriptors select() returns, in the order of its argument list
ReadyList ==
    (IF Readable("stdout") THEN <<"stdout">> ELSE <<>>)
    \o (IF Readable("stderr") THEN <<"stderr">> ELSE <<>>)

\* lines 54-58: select() blocks until a descriptor is readable
Select ==
    /\ mpc = "select"
    /\ ReadyList # <<>>
    /\ no_read' = TRUE
    /\ fd' = Head(ReadyList)
    /\ r' = Tail(ReadyList)
    /\ mpc' = "readline"
    /\ UNCHANGED <<pipeVars, normVars, pending, written, pipe, wopen,
                   returncode, rbuf, stdout, stderr, console, result>>

\* inside readline(): no newline buffered yet, one raw read of what the pipe holds
ReadlineFill ==
    /\ mpc = "readline"
    /\ NewlineAt(rbuf[fd]) = 0
    /\ pipe[fd] # <<>>
    /\ LET n == IF Len(pipe[fd]) <= BufSize THEN Len(pipe[fd]) ELSE BufSize
       IN /\ rbuf' = [rbuf EXCEPT ![fd] = @ \o SubSeq(pipe[fd], 1, n)]
          /\ pipe' = [pipe EXCEPT ![fd] = SubSeq(@, n + 1, Len(@))]
    /\ UNCHANGED <<pipeVars, normVars, pending, written, wopen, returncode,
                   mpc, r, fd, no_read, stdout, stderr, console, result>>

\* what readline() returns once it can: the first buffered line, or at end of
\* file whatever is buffered (b"" when nothing is)
ReadlineValue(s) ==
    IF NewlineAt(rbuf[s]) # 0 THEN SubSeq(rbuf[s], 1, NewlineAt(rbuf[s])) ELSE rbuf[s]

\* a slip in the second branch: the line read from stderr goes to the stdout list
CaptureOfStdoutOnly(s) == "stdout"

\* lines 65, 72: the capture list a line read from descriptor s is appended to
CaptureOf(s) == s

\* lines 63, 70: the prefix written before an echoed line
EchoPrefix(s) ==
    IF s = "stdout" THEN <<"s", "t", "d", "o", "u", "t", ":", " ">>
    ELSE <<"s", "t", "d", "e", "r", "r", ":", " ">>

\* lines 59-72: readline() returns and the line, unless empty, is echoed and kept;
\* the for loop then moves to the next ready descriptor or falls out to line 74
ReadlineReturn ==
    /\ mpc = "readline"
    /\ \/ NewlineAt(rbuf[fd]) # 0
       \/ pipe[fd] = <<>> /\ ~wopen[fd]
    /\ LET read == ReadlineValue(fd)
       IN /\ rbuf' = [rbuf EXCEPT ![fd] = SubSeq(@, Len(read) + 1, Len(@))]
          /\ IF read # <<>>
             THEN /\ no_read' = FALSE
                  /\ console' = [console EXCEPT ![fd] = Append(@, EchoPrefix(fd) \o read)]
                  /\ stdout' = IF CaptureOf(fd) = "stdout"
                               THEN Append(stdout, read) ELSE stdout
                  /\ stderr' = IF CaptureOf(fd) = "stderr"
                               THEN Append(stderr, read) ELSE stderr
             ELSE UNCHANGED <<no_read, console, stdout, stderr>>
    /\ IF r = <<>>
       THEN /\ mpc' = "check"
            /\ UNCHANGED <<r, fd>>
       ELSE /\ fd' = Head(r)
            /\ r' = Tail(r)
            /\ UNCHANGED mpc
    /\ UNCHANGED <<pipeVars, normVars, pending, written, pipe, wopen,
                   returncode, result>>

\* p.poll(): the exit status of the child, None while it runs
Poll == returncode

\* a return as soon as a pass over the ready descriptors read nothing
ReturnConditionNoReadOnly == no_read

\* line 74: the condition under which run() returns
ReturnCondition == no_read /\ returncode # None

\* lines 74-75
CheckExit ==
    /\ mpc = "check"
    /\ IF ReturnCondition
       THEN /\ result' = Some([returncode |-> Poll,
                               stdout |-> stdout, stderr |-> stderr])
            /\ mpc' = "returned"
       ELSE /\ mpc' = "select"
            /\ UNCHANGED result
    /\ UNCHANGED <<pipeVars, normVars, pending, written, pipe, wopen,
                   returncode, rbuf, r, fd, no_read, stdout, stderr, console>>

InitRun ==
    /\ pending = None
    /\ written = [s \in Fds |-> <<>>]
    /\ pipe = [s \in Fds |-> <<>>]
    /\ wopen = [s \in Fds |-> TRUE]
    /\ returncode = None
    /\ rbuf = [s \in Fds |-> <<>>]
    /\ mpc = "select"
    /\ r = <<>>
    /\ fd = "stdout"
    /\ no_read = TRUE
    /\ stdout = <<>>
    /\ stderr = <<>>
    /\ console = [s \in Fds |-> <<>>]
    /\ result = None

NextRun ==
    \/ \E s \in Fds, data \in Chunks : ChildWrite(s, data)
    \/ ChildPush
    \/ \E s \in Fds : ChildClose(s)
    \/ \E code \in ExitCodes : ChildExit(code)
    \/ Select
    \/ ReadlineFill
    \/ ReadlineReturn
    \/ CheckExit

----------------------------------------------------------------------------
(* Characters *)

\* the ASCII characters of code points 32..95 and 97..126, in order
PrintableLow ==
    <<" ", "!", "\"", "#", "$", "%", "&", "'", "(", ")", "*", "+", ",",
      "-", ".", "/", "0", "1", "2", "3", "4", "5", "6", "7", "8", "9", ":",
      ";", "<", "=", ">", "?", "@", "A", "B", "C", "D", "E", "F", "G", "H",
      "I", "J", "K", "L", "M", "N", "O", "P", "Q", "R", "S", "T", "U", "V",
      "W", "X", "Y", "Z", "[", "\\", "]", "^", "_">>

PrintableHigh ==
    <<"a", "b", "c", "d", "e", "f", "g", "h", "i", "j", "k", "l", "m", "n",
      "o", "p", "q", "r", "s", "t", "u", "v", "w", "x", "y", "z", "{", "|",
      "}", "~">>

\* ord(c)
Ord(c) ==
    IF c = "\n" THEN 10
    ELSE IF \E i \in 1..Len(PrintableLow) : PrintableLow[i] = c
    THEN 31 + (CHOOSE i \in 1..Len(PrintableLow) : PrintableLow[i] = c)
    ELSE 96 + (CHOOSE i \in 1..Len(PrintableHigh) : PrintableHigh[i] = c)

UpperCase ==
    <<"A", "B", "C", "D", "E", "F", "G", "H", "I", "J", "K", "L", "M", "N",
      "O", "P", "Q", "R", "S", "T", "U", "V", "W", "X", "Y", "Z">>

LowerCase ==
    <<"a", "b", "c", "d", "e", "f", "g", "h", "i", "j", "k", "l", "m", "n",
      "o", "p", "q", "r", "s", "t", "u", "v", "w", "x", "y", "z">>

\* the lower-case letter of each upper-case letter
LowerOf ==
    [c \in { UpperCase[i] : i \in 1..Len(UpperCase) } |->
        LowerCase[CHOOSE i \in 1..Len(UpperCase) : UpperCase[i] = c]]

\* str.lower(), one character
LowerChar(c) == IF c \in DOMAIN LowerOf THEN LowerOf[c] ELSE c

\* str.lower()
Lower(s) == [i \in 1..Len(s) |-> LowerChar(s[i])]

\* the byte 0xFF, which no UTF-8 text holds
ByteFF == "FF"

\* the bytes below 0x80 that the model uses
Ascii ==
    {"\n"} \cup { PrintableLow[i] : i \in 1..Len(PrintableLow) }
           \cup { PrintableHigh[i] : i \in 1..Len(PrintableHigh) }

IsAscii(b) == b \in Ascii

\* line 86: bytes.decode("utf-8") returns, it does not raise UnicodeDecodeError
Decodes(line) == \A i \in 1..Len(line) : IsAscii(line[i])

\* line 86: a byte below 0x80 decodes to the character of the same code
\* point; the script does not get past line 86 with any other byte
DecodeUtf8(line) ==
    <<>> \o [i \in 1..Len(line) |-> IF IsAscii(line[i]) THEN line[i] ELSE "?"]

\* line 86, the list comprehension
DecodeLines(lines) == <<>> \o [k \in 1..Len(lines) |-> DecodeUtf8(lines[k])]

\* \d
IsDigit(c) == c \in {"0", "1", "2", "3", "4", "5", "6", "7", "8", "9"}

Letters == { LowerCase[i] : i \in 1..Len(LowerCase) } \cup DOMAIN LowerOf

\* \w
IsWord(c) == IsDigit(c) \/ c = "_" \/ c \in Letters

\* [,\d+]
IsCounter(c) == IsDigit(c) \/ c = "," \/ c = "+"

\* . (no DOTALL flag)
IsDot(c) == c # "\n"

\* the character classes that the patterns repeat
InClass(class, c) ==
    CASE class = "digit" -> IsDigit(c)
      [] class = "counter" -> IsCounter(c)
      [] class = "dot" -> IsDot(c)

\* the length of the longest run of characters of the class that starts at
\* s[i]: what a greedy class* takes
RunLen(class, s, i) ==
    IF i > Len(s) THEN 0
    ELSE CHOOSE n \in 0..(Len(s) - i + 1) :
           /\ \A k \in 0..(n - 1) : InClass(class, s[i + k])
           /\ i + n > Len(s) \/ ~InClass(class, s[i + n])

\* what \d+ takes at i, 0 when s[i] is no digit
DigitRun(s, i) == RunLen("digit", s, i)

\* what [,\d+]* takes at i
CounterRun(s, i) == RunLen("counter", s, i)

\* what .* takes at i: up to the next newline
LineRest(s, i) == RunLen("dot", s, i)

\* Python's seq[a:b] for 0 <= a <= b
Slice(seq, a, b) == SubSeq(seq, a + 1, IF b <= Len(seq) THEN b ELSE Len(seq))

----------------------------------------------------------------------------
(* Lines 85-122: the checks on the error stream and the failure marker *)

NoSpacePhrase ==
    <<"n", "o", " ", "s", "p", "a", "c", "e", " ", "l", "e", "f", "t", " ",
      "o", "n", " ", "d", "e", "v", "i", "c", "e">>

KilledMarker ==
    <<"K", "i", "l", "l", "e", "d">>

\* line 89
IsNoSpace(stderr_utf8) == Contains(Lower(Join(stderr_utf8)), NoSpacePhrase)

\* line 94
IsKilled(stderr_utf8) == Contains(Join(stderr_utf8), KilledMarker)

\* the length of the \w{32} token
HashLen == 32

\* first_error_line_re up to the token
ErrorHead ==
    <<"e", "r", "r", "o", "r", ":", " ", "b", "u", "i", "l", "d", "e", "r",
      " ", "f", "o", "r", " ", "'", "/", "n", "i", "x", "/", "s", "t", "o",
      "r", "e", "/">>

\* first_error_line_re between (.*). and \d+;
ErrorTail ==
    <<"d", "r", "v", "'", " ", "f", "a", "i", "l", "e", "d", " ", "w", "i",
      "t", "h", " ", "e", "x", "i", "t", " ", "c", "o", "d", "e", " ">>

\* where group 2 starts in a line that matches
NameStart == Len(ErrorHead) + HashLen + 2

\* the positions j at which the '.' before "drv'" can sit for the rest of the
\* pattern to match: (.*) takes NameStart..j-1, no newline up to j
TailPositions(line) ==
    { j \in NameStart..Len(line) :
        /\ \A k \in NameStart..j : line[k] # "\n"
        /\ StartsWithAt(line, j + 1, ErrorTail)
        /\ DigitRun(line, j + 1 + Len(ErrorTail)) >= 1
        /\ LET e == j + 1 + Len(ErrorTail) + DigitRun(line, j + 1 + Len(ErrorTail))
           IN e <= Len(line) /\ line[e] = ";" }

\* re.match(first_error_line_re, line) is not None
MatchesErrorLine(line) ==
    /\ StartsWithAt(line, 1, ErrorHead)
    /\ Len(line) >= NameStart - 1
    /\ \A k \in 1..HashLen : IsWord(line[Len(ErrorHead) + k])
    /\ line[Len(ErrorHead) + HashLen + 1] = "-"
    /\ TailPositions(line) # {}

\* match.group(1)
Group1(line) == SubSeq(line, Len(ErrorHead) + 1, Len(ErrorHead) + HashLen)

\* match.group(2): (.*) is greedy, so the last position the tail can start at
Group2(line) ==
    LET j == CHOOSE j \in TailPositions(line) : \A k \in TailPositions(line) : k <= j
    IN SubSeq(line, NameStart, j - 1)

\* the 0-based indexes of the lines that match
ErrorLineIndexes(stderr_utf8) ==
    { ix \in 0..(Len(stderr_utf8) - 1) : MatchesErrorLine(stderr_utf8[ix + 1]) }

\* lines 101-105: first_error_line_, the indexes of the matching lines in the
\* order of enumerate() (the match objects are Group1 and Group2 of the line)
FirstErrorLine(stderr_utf8) ==
    LET ixs == ErrorLineIndexes(stderr_utf8)
    IN [k \in 1..Cardinality(ixs) |->
          CHOOSE ix \in ixs : Cardinality({ y \in ixs : y < ix }) = k - 1]

\* a window of nine lines
Last10LogLinesNine(stderr_utf8, ix) == Slice(stderr_utf8, ix + 2, ix + 11)

\* a window that starts at the header line
Last10LogLinesFromHeader(stderr_utf8, ix) == Slice(stderr_utf8, ix + 1, ix + 11)

\* line 122
Last10LogLines(stderr_utf8, ix) == Slice(stderr_utf8, ix + 2, ix + 12)

----------------------------------------------------------------------------
(* Lines 124-147: the substitution passes *)

MinutesWord ==
    <<" ", "m", "i", "n", "u", "t", "e", "s">>

SecondsWord ==
    <<" ", "s", "e", "c", "o", "n", "d", "s">>

StorePrefix ==
    <<"/", "n", "i", "x", "/", "s", "t", "o", "r", "e", "/">>

BazelOpen ==
    <<">", " ", "[">>

BazelSlash ==
    <<" ", "/", " ">>

BazelClose ==
    <<"]", " ">>

InfoPrefix ==
    <<">", " ", "I", "N", "F", "O", ":">>

\* Each MatchN(s, i) is the index just after the match of pass N's pattern that
\* starts at i, and 0 when the pattern does not match at i.

\* line 128, \d+.\d+s : the first \d+ is greedy and gives digits back to let
\* '.' (any character but newline) and the second \d+ match
Match1(s, i) ==
    LET ks == { k \in 1..DigitRun(s, i) :
                  /\ i + k <= Len(s)
                  /\ s[i + k] # "\n"
                  /\ DigitRun(s, i + k + 1) >= 1
                  /\ i + k + 1 + DigitRun(s, i + k + 1) <= Len(s)
                  /\ s[i + k + 1 + DigitRun(s, i + k + 1)] = "s" }
    IN IF ks = {} THEN 0
       ELSE LET k == CHOOSE k \in ks : \A x \in ks : x <= k
            IN i + k + 1 + DigitRun(s, i + k + 1) + 1

\* \d+ SEP \d+ SEP \d+ for a one-character separator
Match3Numbers(s, i, sep) ==
    LET a == DigitRun(s, i)
        b == DigitRun(s, i + a + 1)
        c == DigitRun(s, i + a + 1 + b + 1)
    IN IF /\ a >= 1
          /\ i + a <= Len(s)
          /\ s[i + a] = sep
          /\ b >= 1
          /\ i + a + 1 + b <= Len(s)
          /\ s[i + a + 1 + b] = sep
          /\ c >= 1
       THEN i + a + 1 + b + 1 + c ELSE 0

\* line 129, \d+:\d+:\d+
Match2(s, i) == Match3Numbers(s, i, ":")

\* \d+ followed by a literal word
MatchNumberWord(s, i, word) ==
    LET a == DigitRun(s, i)
    IN IF a >= 1 /\ StartsWithAt(s, i + a, word) THEN i + a + Len(word) ELSE 0

\* line 134, \d+ minutes
Match3(s, i) == MatchNumberWord(s, i, MinutesWord)

\* line 135, \d+ seconds
Match4(s, i) == MatchNumberWord(s, i, SecondsWord)

\* line 138, /nix/store/\w{32}
Match5(s, i) ==
    IF /\ StartsWithAt(s, i, StorePrefix)
       /\ i + Len(StorePrefix) + HashLen - 1 <= Len(s)
       /\ \A k \in 0..(HashLen - 1) : IsWord(s[i + Len(StorePrefix) + k])
    THEN i + Len(StorePrefix) + HashLen ELSE 0

\* lines 141-143, > \[[,\d+]* / [,\d+]*\] .*
Match6(s, i) ==
    LET a == i + Len(BazelOpen)
        b == a + CounterRun(s, a)
        c == b + Len(BazelSlash)
        d == c + CounterRun(s, c)
        e == d + Len(BazelClose)
    IN IF /\ StartsWithAt(s, i, BazelOpen)
          /\ StartsWithAt(s, b, BazelSlash)
          /\ StartsWithAt(s, d, BazelClose)
       THEN e + LineRest(s, e) ELSE 0

\* line 144, > INFO:.*
Match7(s, i) ==
    IF StartsWithAt(s, i, InfoPrefix)
    THEN i + Len(InfoPrefix) + LineRest(s, i + Len(InfoPrefix)) ELSE 0

\* line 147, \d+\.\d+\.\d+
Match8(s, i) == Match3Numbers(s, i, ".")

\* the number of passes
NPasses == 8

MatchEnd(n, s, i) ==
    CASE n = 1 -> Match1(s, i)
      [] n = 2 -> Match2(s, i)
      [] n = 3 -> Match3(s, i)
      [] n = 4 -> Match4(s, i)
      [] n = 5 -> Match5(s, i)
      [] n = 6 -> Match6(s, i)
      [] n = 7 -> Match7(s, i)
      [] n = 8 -> Match8(s, i)

\* the first index from i on at which pattern n matches, 0 when there is none
NextMatch(n, s, i) ==
    IF \E j \in i..Len(s) : MatchEnd(n, s, j) # 0
    THEN CHOOSE j \in i..Len(s) :
           /\ MatchEnd(n, s, j) # 0
           /\ \A k \in i..(j - 1) : MatchEnd(n, s, k) = 0
    ELSE 0

RECURSIVE SubFrom(_, _, _)
\* re.sub(pattern n, "", s) from index i on: matches are taken leftmost first
\* and do not overlap; the text between them is kept
SubFrom(n, s, i) ==
    IF NextMatch(n, s, i) = 0 THEN SubSeq(s, i, Len(s))
    ELSE SubSeq(s, i, NextMatch(n, s, i) - 1)
         \o SubFrom(n, s, MatchEnd(n, s, NextMatch(n, s, i)))

\* re.sub(pattern n, "", s, count=1)
SubFirst(n, s) ==
    IF NextMatch(n, s, 1) = 0 THEN s
    ELSE SubSeq(s, 1, NextMatch(n, s, 1) - 1)
         \o SubSeq(s, MatchEnd(n, s, NextMatch(n, s, 1)), Len(s))

\* re.sub(pattern n, "", s)
Sub(n, s) == SubFrom(n, s, 1)

RECURSIVE Passes(_, _)
\* passes 1..n applied in order
Passes(n, s) == IF n = 0 THEN s ELSE Sub(n, Passes(n - 1, s))

\* lines 128-147 on the joined excerpt
Normalize(lines) == Passes(NPasses, Join(lines))

----------------------------------------------------------------------------
(* Lines 149-152: the tags *)

\* hash() of a str is keyed by a secret drawn when the interpreter starts
\* (PYTHONHASHSEED unset); the seeds a process may draw
HashSeeds == {0, 1}

\* the number of values the modelled hash takes
HashMod == 8191

\* the multiplier of the modelled hash
HashMul == 33

RECURSIVE HashPow(_)
\* HashMul^n modulo HashMod
HashPow(n) ==
    IF n = 0 THEN 1
    ELSE IF n % 2 = 0 THEN (HashPow(n \div 2) * HashPow(n \div 2)) % HashMod
    ELSE (((HashPow(n \div 2) * HashPow(n \div 2)) % HashMod) * HashMul) % HashMod

RECURSIVE HashRange(_, _, _)
\* the polynomial hash of s[lo..hi], by halves
HashRange(s, lo, hi) ==
    IF lo > hi THEN 0
    ELSE IF lo = hi THEN Ord(s[lo]) % HashMod
    ELSE (HashRange(s, lo, (lo + hi) \div 2) * HashPow(hi - (lo + hi) \div 2)
          + HashRange(s, (lo + hi) \div 2 + 1, hi)) % HashMod

\* hash(s) in a process whose secret is seed: a keyed hash of the characters,
\* h := seed + 1, then h := h * HashMul + ord(c) for each character
Hash(seed, s) == ((seed + 1) * HashPow(Len(s)) + HashRange(s, 1, Len(s))) % HashMod

Namespace ==
    <<"n", "i", "x", "p", "k", "g", "s", "-", "u", "p", "k", "e", "e", "p",
      " ">>

\* line 151
LogsTag(seed, pname_version, pure) ==
    Hash(seed, Namespace \o pname_version \o <<" ">> \o pure)

\* line 152
DrvTag(seed, drv_hash) == Hash(seed, Namespace \o drv_hash)

----------------------------------------------------------------------------
(* What nix-build may print on stderr: the inputs of the script *)

HashA ==
    <<"0", "1", "2", "3", "4", "5", "6", "7", "8", "9", "a", "b", "c", "d",
      "f", "g", "h", "i", "j", "k", "l", "m", "n", "p", "q", "r", "s", "v",
      "w", "x", "y", "z">>

HashB ==
    <<"z", "y", "x", "w", "v", "s", "r", "q", "p", "n", "m", "l", "k", "j",
      "i", "h", "g", "f", "d", "c", "b", "a", "9", "8", "7", "6", "5", "4",
      "3", "2", "1", "0">>

PnameVersion ==
    <<"f", "o", "o", "-", "1", ".", "2", ".", "3">>

\* the failure marker line nix-build prints for a derivation
MarkerLine(drv_hash, pname_version) ==
    ErrorHead \o drv_hash \o <<"-">> \o pname_version \o <<".">> \o ErrorTail
        \o <<"1", ";", "\n">>

HeaderLine ==
    <<" ", " ", " ", " ", " ", " ", " ", "l", "a", "s", "t", " ", "1", "0",
      " ", "l", "o", "g", " ", "l", "i", "n", "e", "s", ":", "\n">>

TrailerLine ==
    <<" ", " ", " ", " ", " ", " ", " ", "F", "o", "r", " ", "f", "u", "l",
      "l", " ", "l", "o", "g", "s", ",", " ", "r", "u", "n", " ", "'", "n",
      "i", "x", " ", "l", "o", "g", "'", ".", "\n">>

\* the longest log excerpt nix-build prints
MaxLogLines == 10

\* n log lines, "> " then c then the k-th letter
LogLines(c, n) == [k \in 1..n |-> <<">", " ", c, LowerCase[k], "\n">>]

\* a failure of one derivation: marker, header, n log lines, trailer
Failure(drv_hash, c, n) ==
    <<MarkerLine(drv_hash, PnameVersion), HeaderLine>> \o LogLines(c, n) \o <<TrailerLine>>

NoAttrLine ==
    <<"e", "r", "r", "o", "r", ":", " ", "a", "t", "t", "r", "i", "b", "u",
      "t", "e", " ", "'", "f", "o", "o", "'", " ", "m", "i", "s", "s", "i",
      "n", "g", "\n">>

NoSpaceLine ==
    <<"O", "S", "E", "r", "r", "o", "r", ":", " ", "[", "E", "r", "r", "n",
      "o", " ", "2", "8", "]", " ", "N", "o", " ", "s", "p", "a", "c", "e",
      " ", "l", "e", "f", "t", " ", "o", "n", " ", "d", "e", "v", "i", "c",
      "e", "\n">>

NoSpaceUpperLine ==
    <<"N", "O", " ", "S", "P", "A", "C", "E", " ", "L", "E", "F", "T", " ",
      "O", "N", " ", "D", "E", "V", "I", "C", "E", "\n">>

KilledLine ==
    <<"/", "b", "u", "i", "l", "d", "/", "r", "u", "n", ".", "s", "h", ":",
      " ", "l", "i", "n", "e", " ", "3", ":", " ", "4", "2", " ", "K", "i",
      "l", "l", "e", "d", "\n">>

\* a log line in an 8-bit encoding
Latin1Line ==
    <<">", " ", "c", "a", "f", ByteFF, "\n">>

KilledLowerLine ==
    <<"w", "o", "r", "k", "e", "r", " ", "w", "a", "s", " ", "k", "i", "l",
      "l", "e", "d", "\n">>

\* the ProcessResults the model draws for the build: exit status and stderr
BuildChoices ==
    { \* one failing derivation, A or B, with excerpt x or y
      [returncode |-> 100, stderr |-> Failure(HashA, "x", MaxLogLines)],
      [returncode |-> 1, stderr |-> Failure(HashB, "x", MaxLogLines)],
      [returncode |-> 100, stderr |-> Failure(HashA, "y", MaxLogLines)],
      \* the marker is not the first line, the log is short, "killed" in lower case
      [returncode |-> 1, stderr |-> <<KilledLowerLine>> \o Failure(HashB, "y", 3)],
      \* no marker line, two marker lines
      [returncode |-> 1, stderr |-> <<>>],
      [returncode |-> 100, stderr |-> <<NoAttrLine>>],
      [returncode |-> 1,
       stderr |-> <<MarkerLine(HashA, PnameVersion), MarkerLine(HashB, PnameVersion)>>],
      \* the disk is full, the builder was killed
      [returncode |-> 1, stderr |-> <<NoSpaceLine>> \o Failure(HashA, "x", MaxLogLines)],
      [returncode |-> 100, stderr |-> <<NoSpaceUpperLine>>],
      [returncode |-> 100, stderr |-> <<KilledLine, NoAttrLine>>],
      [returncode |-> 1,
       stderr |-> <<KilledLine, MarkerLine(HashA, PnameVersion),
                    MarkerLine(HashB, PnameVersion)>>],
      \* the error stream is not UTF-8
      [returncode |-> 100, stderr |-> <<NoSpaceLine, Latin1Line>>],
      [returncode |-> 100, stderr |-> <<NoAttrLine, Latin1Line>>],
      [returncode |-> 1,
       stderr |-> Failure(HashB, "x", MaxLogLines) \o <<Latin1Line>>],
      \* the marker is the second line, a full log follows
      [returncode |-> 100,
       stderr |-> <<NoAttrLine>> \o Failure(HashA, "z", MaxLogLines)],
      \* the build succeeds
      [returncode |-> 0, stderr |-> <<>>],
      [returncode |-> 0, stderr |-> <<KilledLine>>],
      [returncode |-> 0, stderr |-> <<NoAttrLine>>] }

----------------------------------------------------------------------------
(* The script, lines 79-316, run by each of two independent processes *)

Procs == {1, 2}

\* line 183: the upper end of random.randint(0, 15 * 60)
MaxSleep == 15 * 60

\* durations drawn from a range that ends one second later
SleepChoicesPastMax == {0, 1, MaxSleep, MaxSleep + 1}

\* the durations the model draws: the ends of the range and their neighbours
SleepChoices == {0, 1, MaxSleep - 1, MaxSleep}

\* one more stage in the record of what process p has done
Did(p, stage) == stages' = [stages EXCEPT ![p] = Append(@, stage)]

\* sys.exit(code), or an uncaught exception (code 1)
SysExit(p, code, how) ==
    /\ pc' = [pc EXCEPT ![p] = "done"]
    /\ exit_code' = [exit_code EXCEPT ![p] = Some(code)]
    /\ outcome' = [outcome EXCEPT ![p] = how]

recordVars == <<failing_drv_hash, failing_pname_version, last_10_log_lines,
                last_10_log_lines_pure, logs_tag, drv_tag>>

\* line 79: run() returns the build's exit status and output
Build(p, res) ==
    /\ pc[p] = "start"
    /\ build_result' = [build_result EXCEPT ![p] = Some(res)]
    /\ pc' = [pc EXCEPT ![p] = "built"]
    /\ Did(p, "build")
    /\ UNCHANGED <<runVars, normVars, hashSeed, exit_code, outcome,
                   recordVars, sleeping, existing_issues_count, issues>>

\* lines 48-50: Popen raises, nix-build cannot be started
BuildCannotStart(p) ==
    /\ pc[p] = "start"
    /\ SysExit(p, 1, "Fatal")
    /\ Did(p, "build")
    /\ UNCHANGED <<runVars, normVars, hashSeed, build_result, recordVars,
                   sleeping, existing_issues_count, issues>>

\* a test that treats two or more marker lines as classifiable
IsUnclassifiableNoneOnly(first_error_line_) == Len(first_error_line_) = 0

\* line 107
IsUnclassifiable(first_error_line_) == Len(first_error_line_) # 1

\* lines 91, 96
ExitCodeNotReportable(rc) == 0

\* lines 81-114: success, the environmental conditions, the marker count
Classify(p) ==
    /\ pc[p] = "built"
    /\ LET rc == The(build_result[p]).returncode
           raw == The(build_result[p]).stderr
           stderr_utf8 == DecodeLines(raw)
       IN IF rc = 0 THEN SysExit(p, 0, "Success")
          ELSE IF \E k \in 1..Len(raw) : ~Decodes(raw[k])
          THEN SysExit(p, 1, "Fatal")
          ELSE IF IsNoSpace(stderr_utf8) \/ IsKilled(stderr_utf8)
          THEN SysExit(p, ExitCodeNotReportable(rc), "NotReportable")
          ELSE IF IsUnclassifiable(FirstErrorLine(stderr_utf8))
          THEN SysExit(p, rc, "Unclassifiable")
          ELSE /\ pc' = [pc EXCEPT ![p] = "classified"]
               /\ outcome' = [outcome EXCEPT ![p] = "Classified"]
               /\ UNCHANGED exit_code
    /\ Did(p, "classify")
    /\ UNCHANGED <<runVars, normVars, hashSeed, build_result, recordVars,
                   sleeping, existing_issues_count, issues>>

\* lines 116-152: the failure record, the normalized excerpt and the two tags
Fingerprint(p) ==
    /\ pc[p] = "classified"
    /\ LET raw == The(build_result[p]).stderr
           stderr_utf8 == DecodeLines(raw)
           first_error_line_ix == FirstErrorLine(stderr_utf8)[1]
           line == stderr_utf8[first_error_line_ix + 1]
           excerpt == Last10LogLines(stderr_utf8, first_error_line_ix)
           pure == Normalize(excerpt)
       IN /\ failing_drv_hash' = [failing_drv_hash EXCEPT ![p] = Group1(line)]
          /\ failing_pname_version' = [failing_pname_version EXCEPT ![p] = Group2(line)]
          /\ last_10_log_lines' = [last_10_log_lines EXCEPT ![p] = excerpt]
          /\ last_10_log_lines_pure' = [last_10_log_lines_pure EXCEPT ![p] = pure]
          /\ logs_tag' = [logs_tag EXCEPT ![p] = LogsTag(hashSeed[p], Group2(line), pure)]
          /\ drv_tag' = [drv_tag EXCEPT ![p] = DrvTag(hashSeed[p], Group1(line))]
    /\ pc' = [pc EXCEPT ![p] = "tagged"]
    /\ UNCHANGED <<runVars, normVars, hashSeed, build_result, exit_code,
                   outcome, stages, sleeping, existing_issues_count, issues>>

\* line 183: time.sleep(random.randint(0, 15 * 60)) begins
SleepStart(p, d) ==
    /\ pc[p] = "tagged"
    /\ sleeping' = [sleeping EXCEPT ![p] = Some(d)]
    /\ pc' = [pc EXCEPT ![p] = "sleeping"]
    /\ Did(p, "sleep")
    /\ UNCHANGED <<runVars, normVars, hashSeed, build_result, exit_code,
                   outcome, recordVars, existing_issues_count, issues>>

\* line 183: time.sleep returns
SleepEnd(p) ==
    /\ pc[p] = "sleeping"
    /\ sleeping' = [sleeping EXCEPT ![p] = None]
    /\ pc' = [pc EXCEPT ![p] = "search_logs"]
    /\ UNCHANGED <<runVars, normVars, hashSeed, build_result, exit_code,
                   outcome, recordVars, stages, existing_issues_count,
                   issues>>

\* lines 156-161: the total_count the search returns for a tag; an issue
\* matches when the tag is one of the "Internal tags" of its body
TotalCount(tag) == Cardinality({ i \in issues : tag = i.logs_tag \/ tag = i.drv_tag })

\* line 168, commented out in the source: fail with the build's exit code
ExitCodeExistingFromBuild(rc) == rc

\* line 171
ExitCodeExisting(rc) == 0

\* find_existing_issues(tag) without line 171: a match is printed, no more
FindExistingIssuesNoExit(p, tag, at, next) ==
    /\ pc[p] = at
    /\ existing_issues_count' = [existing_issues_count EXCEPT ![p] = Some(TotalCount(tag))]
    /\ pc' = [pc EXCEPT ![p] = next]
    /\ Did(p, at)
    /\ UNCHANGED <<runVars, normVars, hashSeed, build_result, exit_code,
                   outcome, recordVars, sleeping, issues>>

\* lines 155-171: find_existing_issues(tag), called at `at`, going on to `next`
FindExistingIssues(p, tag, at, next) ==
    /\ pc[p] = at
    /\ existing_issues_count' = [existing_issues_count EXCEPT ![p] = Some(TotalCount(tag))]
    /\ IF TotalCount(tag) > 0
       THEN SysExit(p, ExitCodeExisting(The(build_result[p]).returncode), "AlreadyReported")
       ELSE /\ pc' = [pc EXCEPT ![p] = next]
            /\ UNCHANGED <<exit_code, outcome>>
    /\ Did(p, at)
    /\ UNCHANGED <<runVars, normVars, hashSeed, build_result, recordVars,
                   sleeping, issues>>

\* line 187
SearchLogs(p) == FindExistingIssues(p, logs_tag[p], "search_logs", "search_drv")

\* line 189
SearchDrv(p) == FindExistingIssues(p, drv_tag[p], "search_drv", "prepare")

\* lines 156-161: the request fails or the reply has no total_count
SearchFails(p) ==
    /\ pc[p] \in {"search_logs", "search_drv"}
    /\ SysExit(p, 1, "Fatal")
    /\ Did(p, pc[p])
    /\ UNCHANGED <<runVars, normVars, hashSeed, build_result, recordVars,
                   sleeping, existing_issues_count, issues>>

\* lines 192-294: attribute, commit, maintainers, configuration, issue body
Prepare(p) ==
    /\ pc[p] = "prepare"
    /\ pc' = [pc EXCEPT ![p] = "report"]
    /\ Did(p, "prepare")
    /\ UNCHANGED <<runVars, normVars, hashSeed, build_result, exit_code,
                   outcome, recordVars, sleeping, existing_issues_count,
                   issues>>

\* lines 247-249: ~/.config/nixpkgs/config.nix cannot be read
PrepareFails(p) ==
    /\ pc[p] = "prepare"
    /\ SysExit(p, 1, "Fatal")
    /\ Did(p, "prepare")
    /\ UNCHANGED <<runVars, normVars, hashSeed, build_result, recordVars,
                   sleeping, existing_issues_count, issues>>

\* lines 262-294: the issue, with the failure it reports and its two tags
Issue(p) ==
    [by |-> p,
     drv_hash |-> failing_drv_hash[p],
     pname_version |-> failing_pname_version[p],
     pure |-> last_10_log_lines_pure[p],
     logs_tag |-> logs_tag[p],
     drv_tag |-> drv_tag[p]]

\* an issue created only if neither tag is found at that very moment
CreateIssueIfAbsent(p) ==
    /\ pc[p] = "report"
    /\ TotalCount(logs_tag[p]) = 0
    /\ TotalCount(drv_tag[p]) = 0
    /\ issues' = issues \cup {Issue(p)}
    /\ pc' = [pc EXCEPT ![p] = "exit"]
    /\ Did(p, "report")
    /\ UNCHANGED <<runVars, normVars, hashSeed, build_result, exit_code,
                   outcome, recordVars, sleeping, existing_issues_count>>

\* lines 297-314: gh issue create succeeds
CreateIssue(p) ==
    /\ pc[p] = "report"
    /\ issues' = issues \cup {Issue(p)}
    /\ pc' = [pc EXCEPT ![p] = "exit"]
    /\ Did(p, "report")
    /\ UNCHANGED <<runVars, normVars, hashSeed, build_result, exit_code,
                   outcome, recordVars, sleeping, existing_issues_count>>

\* lines 297-314 with check=False: the status of gh is not looked at
CreateIssueUnchecked(p) ==
    /\ pc[p] = "report"
    /\ pc' = [pc EXCEPT ![p] = "exit"]
    /\ Did(p, "report")
    /\ UNCHANGED <<runVars, normVars, hashSeed, build_result, exit_code,
                   outcome, recordVars, sleeping, existing_issues_count, issues>>

\* lines 297-314: gh cannot be started or exits non-zero, and check=True
\* raises; nothing catches the exception
CreateIssueFails(p) ==
    /\ pc[p] = "report"
    /\ SysExit(p, 1, "Fatal")
    /\ Did(p, "report")
    /\ UNCHANGED <<runVars, normVars, hashSeed, build_result, recordVars,
                   sleeping, existing_issues_count, issues>>

\* an exit that reports success once the issue is filed
ExitCodeReportedZero(rc) == 0

\* line 316
ExitCodeReported(rc) == rc

\* line 316
Exit(p) ==
    /\ pc[p] = "exit"
    /\ SysExit(p, ExitCodeReported(The(build_result[p]).returncode), "Reported")
    /\ UNCHANGED <<runVars, normVars, hashSeed, build_result, recordVars,
                   stages, sleeping, existing_issues_count, issues>>

InitPipeline ==
    /\ pc = [p \in Procs |-> "start"]
    /\ hashSeed \in [Procs -> HashSeeds]
    /\ build_result = [p \in Procs |-> None]
    /\ exit_code = [p \in Procs |-> None]
    /\ outcome = [p \in Procs |-> "Running"]
    /\ stages = [p \in Procs |-> <<>>]
    /\ failing_drv_hash = [p \in Procs |-> <<>>]
    /\ failing_pname_version = [p \in Procs |-> <<>>]
    /\ last_10_log_lines = [p \in Procs |-> <<>>]
    /\ last_10_log_lines_pure = [p \in Procs |-> <<>>]
    /\ logs_tag = [p \in Procs |-> 0]
    /\ drv_tag = [p \in Procs |-> 0]
    /\ sleeping = [p \in Procs |-> None]
    /\ existing_issues_count = [p \in Procs |-> None]
    /\ issues = {}

NextPipeline ==
    \E p \in Procs :
        \/ \E res \in BuildChoices : Build(p, res)
        \/ BuildCannotStart(p)
        \/ Classify(p)
        \/ Fingerprint(p)
        \/ \E d \in SleepChoices : SleepStart(p, d)
        \/ SleepEnd(p)
        \/ SearchLogs(p)
        \/ SearchDrv(p)
        \/ SearchFails(p)
        \/ Prepare(p)
        \/ PrepareFails(p)
        \/ CreateIssue(p)
        \/ CreateIssueFails(p)
        \/ Exit(p)

----------------------------------------------------------------------------
(* Lines 122-151 on two excerpts that differ only in volatile substrings *)

\* a store path hash in which digits, one character and an "s" follow digits
HashC ==
    <<"a", "b", "c", "d", "f", "g", "h", "i", "j", "k", "l", "m", "n", "p",
      "q", "r", "1", "a", "2", "s", "z", "0", "1", "2", "3", "4", "5", "6",
      "7", "8", "9", "a">>

VolatileKinds ==
    {"secs", "hms", "minutes", "seconds", "store", "semver", "split"}

\* the substrings of one kind that two runs of the same build may print
Volatile(kind) ==
    CASE kind = "secs" ->
           {<<"6", "0", "4", ".", "2", "2", "s">>,
            <<"5", ".", "1", "s">>}
      [] kind = "hms" ->
           {<<"0", ":", "1", "0", ":", "0", "4">>,
            <<"1", "2", ":", "0", "0", ":", "5", "9">>}
      [] kind = "minutes" ->
           {<<"2">> \o MinutesWord, <<"1", "5">> \o MinutesWord}
      [] kind = "seconds" ->
           {<<"2", "2">> \o SecondsWord, <<"3">> \o SecondsWord}
      [] kind = "store" ->
           {StorePrefix \o HashA, StorePrefix \o HashB, StorePrefix \o HashC}
      [] kind = "semver" ->
           {<<"1", ".", "2", ".", "3">>,
            <<"1", "0", ".", "0", ".", "2", "1">>}
      \* a duration in words that splits a duration in decimal seconds
      [] kind = "split" ->
           {<<"5", ".", "3">> \o MinutesWord \o <<"1", "s">>,
            <<"5", ".", "2", "2">> \o SecondsWord \o <<"1", "s">>}

\* the text around the volatile substrings, the same in both excerpts
Lead ==
    <<">", " ", "s", "e", "e", " ">>

Between ==
    <<" ", "a", "n", "d", " ">>

Ends ==
    {<<" ", "d", "o", "n", "e", "\n">>,
     <<"-", "f", "o", "o", "/", "b", "i", "n", "\n">>}

\* an excerpt: one line with two volatile substrings, and a line without any
Excerpt(v, w, end) ==
    <<Lead \o v \o Between \o w \o end, TrailerLine>>

\* line 128, the join before the first pass
InitNorm ==
    /\ \E end \in Ends, k1 \in VolatileKinds, k2 \in VolatileKinds :
         \E v1 \in Volatile(k1), v2 \in Volatile(k1),
            w1 \in Volatile(k2), w2 \in Volatile(k2) :
            excerpts = <<Excerpt(v1, w1, end), Excerpt(v2, w2, end)>>
    /\ pures = <<Join(excerpts[1]), Join(excerpts[2])>>
    /\ npass = 0
    /\ tags = None
    /\ repures = None

\* the passes are not running
NormIdle ==
    /\ excerpts = <<>>
    /\ pures = <<>>
    /\ npass = 0
    /\ tags = None
    /\ repures = None

\* one of the re.sub calls of lines 128-147, on both texts
SubPass ==
    /\ npass < NPasses
    /\ npass' = npass + 1
    /\ pures' = <<Sub(npass + 1, pures[1]), Sub(npass + 1, pures[2])>>
    /\ UNCHANGED <<runVars, pipeVars, excerpts, tags, repures>>

\* line 151, for both texts with the same pname-version
ComputeLogsTags ==
    /\ npass = NPasses
    /\ tags = None
    /\ tags' = Some(<<LogsTag(hashSeed[1], PnameVersion, pures[1]),
                      LogsTag(hashSeed[2], PnameVersion, pures[2])>>)
    /\ UNCHANGED <<runVars, pipeVars, excerpts, pures, npass, repures>>

\* lines 128-147 once more, on the two normalized texts
NormalizeAgain ==
    /\ npass = NPasses
    /\ repures = None
    /\ repures' = Some(<<Passes(NPasses, pures[1]), Passes(NPasses, pures[2])>>)
    /\ UNCHANGED <<runVars, pipeVars, excerpts, pures, npass, tags>>

NextNorm ==
    \/ SubPass
    \/ ComputeLogsTags
    \/ NormalizeAgain

----------------------------------------------------------------------------
(* The specifications *)

\* run() alone: the script's processes have not started
InitRunOnly == InitRun /\ InitPipeline /\ NormIdle /\ hashSeed = [p \in Procs |-> 0]

SpecRun == InitRunOnly /\ [][NextRun]_vars

\* run() and a child that may leave a process holding its pipes
NextRunHeld ==
    \/ NextRun
    \/ \E code \in ExitCodes : ChildExitHeld(code)
    \/ DescendantExit

\* a step of run(): it is one thread, and it is scheduled whenever it can go on
MuxStep == Select \/ ReadlineFill \/ ReadlineReturn \/ CheckExit

\* run() under fair scheduling; the child and its descendants owe nothing
SpecRunFair == InitRunOnly /\ [][NextRunHeld]_vars /\ WF_vars(MuxStep)

\* the script from the build result on, run() taken as one step
Init == InitRun /\ InitPipeline /\ NormIdle

Next == NextPipeline

Spec == Init /\ [][Next]_vars

\* the passes and the tag alone, both texts hashed by one interpreter
InitNormOnly == InitRun /\ InitPipeline /\ InitNorm /\ hashSeed[1] = hashSeed[2]

SpecNorm == InitNormOnly /\ [][NextNorm]_vars

----------------------------------------------------------------------------
(* Claims about run(), checked under SpecRun *)

\* run() is inside readline() on s and cannot proceed: no complete line is
\* buffered, the pipe is empty and its write end is still open
MuxBlockedReading(s) ==
    /\ mpc = "readline"
    /\ fd = s
    /\ NewlineAt(rbuf[s]) = 0
    /\ pipe[s] = <<>>
    /\ wopen[s]

\* the child is inside write() on s and cannot proceed: the pipe is full
ChildBlockedWriting(s) ==
    /\ pending # None
    /\ The(pending).fd = s
    /\ Len(pipe[s]) = PipeCap

\* C6: in no reachable state is run() blocked reading one stream while the
\* child is blocked writing to the other stream's full pipe.
C6_NoBackpressureDeadlock ==
    ~ \E s \in Fds, t \in Fds :
        s # t /\ MuxBlockedReading(s) /\ ChildBlockedWriting(t)

\* C7: when run() has returned, the child has exited, no stream holds unread
\* data, and each capture list holds every line the child wrote to that stream.
C7_ReturnsDrained ==
    mpc = "returned" =>
        /\ returncode # None
        /\ \A s \in Fds : pipe[s] = <<>> /\ rbuf[s] = <<>>
        /\ stdout = SplitLines(written["stdout"])
        /\ stderr = SplitLines(written["stderr"])

\* C8: in every state each capture list is a prefix of the lines the child has
\* written to that stream, and each console stream shows the captured lines of
\* its stream, in order, each behind its prefix.
C8_PerStreamOrder ==
    /\ IsPrefix(stdout, SplitLines(written["stdout"]))
    /\ IsPrefix(stderr, SplitLines(written["stderr"]))
    /\ console["stdout"] = [i \in 1..Len(stdout) |-> EchoPrefix("stdout") \o stdout[i]]
    /\ console["stderr"] = [i \in 1..Len(stderr) |-> EchoPrefix("stderr") \o stderr[i]]

\* C8 witness: run() has returned after capturing two lines of stdout and a
\* line of stderr that the child wrote while stdout was still being written.
C8_Witness ==
    /\ mpc = "returned"
    /\ Len(stdout) >= 2
    /\ Len(stderr) >= 1
    /\ stdout = SplitLines(written["stdout"])
    /\ stderr = SplitLines(written["stderr"])

\* readline() on the descriptor in hand is about to return b"" while the
\* child is running: the stream is at end of file with nothing buffered
ZeroByteRead ==
    /\ mpc = "readline"
    /\ returncode = None
    /\ rbuf[fd] = <<>>
    /\ pipe[fd] = <<>>
    /\ ~wopen[fd]

\* C14: a read of zero bytes while the child is running changes no capture
\* list and no console stream and loses nothing of that stream, and line 74,
\* evaluated while the child is running, does not return but goes back to
\* select, whatever the reads of the pass gave.
C14_ZeroBytesNotEndOfStream ==
    [][LET CaptureList == IF fd = "stdout" THEN stdout ELSE stderr
           \* the step is the return of readline() on the descriptor in hand
           ReadlineReturns == mpc' # mpc \/ fd' # fd
           \* the step is line 74, evaluated while the child is running
           CheckWhileRunning ==
               mpc = "check" /\ returncode = None /\ mpc' # mpc
       IN /\ ZeroByteRead /\ ReadlineReturns =>
               /\ UNCHANGED <<stdout, stderr, console, no_read>>
               /\ CaptureList = SplitLines(written[fd])
               /\ mpc' \in {"readline", "check"}
               /\ result' = None
          /\ CheckWhileRunning =>
               /\ mpc' = "select"
               /\ result' = None
               /\ UNCHANGED <<stdout, stderr>>]_vars

\* C14 witness: every read of a pass gave zero bytes, the child is running and
\* still writes to the other stream, and run() is at line 74.
C14_Witness ==
    /\ mpc = "check"
    /\ no_read
    /\ returncode = None
    /\ ~wopen["stdout"]
    /\ wopen["stderr"]
    /\ result = None

\* C15: under fair scheduling, once the child has exited run() returns its
\* exit code, also when no data and no end of file arrive after the exit.
C15_ReturnsAfterExit ==
    (returncode # None) ~> (result # None /\ The(result).returncode = returncode)

\* C15: the child has exited, run() is inside select() and select() has
\* nothing to report.
C15_Witness ==
    /\ mpc = "select"
    /\ returncode # None
    /\ ReadyList = <<>>
    /\ result = None

----------------------------------------------------------------------------
(* Claims about the script, checked under Spec *)

\* process p has gone through lines 81-114
HasClassified(p) == Len(stages[p]) >= 2

\* process p has exited and the stages in `later` never ran
ExitedWith(p, code) == pc[p] = "done" /\ exit_code[p] = Some(code)

Never(p, later) == \A k \in 1..Len(stages[p]) : stages[p][k] \notin later

\* the text holds the phrase in some mix of letter cases
HoldsAnyCase(text, phrase) ==
    \E i \in 1..(Len(text) - Len(phrase) + 1) :
        \A k \in 1..Len(phrase) : LowerChar(text[i + k - 1]) = phrase[k]

\* the error stream of p's build carries one of the two environmental marks
Environmental(p) ==
    \/ HoldsAnyCase(Join(The(build_result[p]).stderr), NoSpacePhrase)
    \/ Contains(Join(The(build_result[p]).stderr), KilledMarker)

\* the number of lines of p's error stream that match the failure-marker grammar
MarkerCount(p) == Cardinality(ErrorLineIndexes(The(build_result[p]).stderr))

\* C1: once a search has reported a match count above zero, the process has
\* exited with code 0 and the Reporter (preparation and gh) has not run,
\* whatever the build's exit code.
C1_MatchExitsZeroWithoutReport ==
    \A p \in Procs :
        (existing_issues_count[p] # None /\ The(existing_issues_count[p]) > 0)
            => ExitedWith(p, 0) /\ Never(p, {"prepare", "report"})

\* C1 witness: a build that exited 100, a first search that found nothing and a
\* search for the drv tag that reported a match.
C1_Witness ==
    \E p \in Procs :
        /\ pc[p] = "done"
        /\ existing_issues_count[p] # None
        /\ The(build_result[p]).returncode = 100
        /\ The(existing_issues_count[p]) > 0
        /\ stages[p][Len(stages[p])] = "search_drv"

\* C2 as stated: after an issue has been newly filed the exit code is 0.
C2_ReportedExitsZero ==
    \A p \in Procs : outcome[p] = "Reported" => exit_code[p] = Some(0)

\* C2 amended: after an issue has been newly filed the process exits with the
\* build's own exit code, which is not 0.
C2_ReportedExitsWithBuildCode ==
    \A p \in Procs :
        outcome[p] = "Reported" =>
            /\ exit_code[p] = Some(The(build_result[p]).returncode)
            /\ exit_code[p] # Some(0)
            /\ \E i \in issues : i.by = p

\* C2 witness: a process filed its issue and has exited with the build's 100.
C2_Witness ==
    \E p \in Procs :
        /\ outcome[p] = "Reported"
        /\ exit_code[p] = Some(100)
        /\ \E i \in issues : i.by = p

\* process p has computed its tags
Tagged(p) == failing_drv_hash[p] # <<>>

\* C3: two runs that classified the same buildIdentifier hold the same buildTag.
C3_SameIdentifierSameBuildTag ==
    \A p \in Procs, q \in Procs :
        (Tagged(p) /\ Tagged(q) /\ failing_drv_hash[p] = failing_drv_hash[q])
            => drv_tag[p] = drv_tag[q]

\* C4: a process whose error stream carries the disk-space phrase in any letter
\* case, or "Killed", exits 0 at classification whatever the build's exit code
\* and however many marker lines there are; it never sleeps, searches or reports.
C4_EnvironmentalExitsZero ==
    \A p \in Procs :
        HasClassified(p) =>
            \/ /\ ExitedWith(p, 0)
               /\ Never(p, {"sleep", "search_logs", "search_drv", "prepare", "report"})
            \/ ~Environmental(p)

SameLogs(i, p) ==
    /\ i.pname_version = failing_pname_version[p]
    /\ i.pure = last_10_log_lines_pure[p]

SameDrv(i, p) == i.drv_hash = failing_drv_hash[p]

\* C10: a dedup check never comes back clear while an issue for the same
\* failure is in the search index: not the logs check for an issue with the
\* same name and normalized excerpt, not the drv check for one with the same
\* buildIdentifier.
C10_VisibleReportSuppresses ==
    [][\A p \in Procs :
          /\ (pc[p] = "search_logs" /\ pc'[p] = "search_drv")
                => ~ \E i \in issues : SameLogs(i, p)
          /\ (pc[p] = "search_drv" /\ pc'[p] = "prepare")
                => ~ \E i \in issues : SameDrv(i, p)]_vars

----------------------------------------------------------------------------
(* Claims about the failure record, checked under Spec *)

\* the error stream of p's build
ErrorBuffer(p) == The(build_result[p]).stderr

\* every line of p's error stream decodes as UTF-8
DecodesAll(p) == \A k \in 1..Len(ErrorBuffer(p)) : Decodes(ErrorBuffer(p)[k])

\* the 0-based indexes of the marker lines of p's error stream
MarkerIndexes(p) == ErrorLineIndexes(ErrorBuffer(p))

\* after the marker line at 0-based index ix come the header line and at
\* least ten lines
FullWindow(p, ix) ==
    /\ Len(ErrorBuffer(p)) >= ix + 12
    /\ ErrorBuffer(p)[ix + 2] = HeaderLine

\* p was classified, and once it holds a failure record the record carries the
\* token and the name-version of the marker line at ix and the ten lines that
\* follow the header
RecordOfWindow(p, ix) ==
    /\ ~(pc[p] = "done" /\ Len(stages[p]) = 2)
    /\ Len(stages[p]) = 2 => outcome[p] = "Classified"
    /\ pc[p] # "classified" =>
         /\ \E h \in {HashA, HashB} :
              /\ ErrorBuffer(p)[ix + 1] = MarkerLine(h, PnameVersion)
              /\ failing_drv_hash[p] = h
         /\ failing_pname_version[p] = PnameVersion
         /\ last_10_log_lines[p] = SubSeq(ErrorBuffer(p), ix + 3, ix + 12)

LinesAfterHeader(p) ==
    LET marker == MarkerLine(failing_drv_hash[p], failing_pname_version[p])
        ix == CHOOSE ix \in 0..(Len(ErrorBuffer(p)) - 1) :
                  ErrorBuffer(p)[ix + 1] = marker
    IN IF Len(ErrorBuffer(p)) > ix + 2 THEN Len(ErrorBuffer(p)) - (ix + 2) ELSE 0

----------------------------------------------------------------------------
(* Claims about the Reporter, checked under Spec *)

\* the Reporter of p was invoked and no issue of p exists
ReportFailed(p) ==
    /\ stages[p] # <<>>
    /\ stages[p][Len(stages[p])] = "report"
    /\ \A i \in issues : i.by # p

\* C13: when the issue-creation call fails the run is over, in an error state,
\* with a non-zero exit code.
C13_FailedReportFatal ==
    \A p \in Procs : ReportFailed(p) =>
        /\ pc[p] = "done"
        /\ outcome[p] = "Fatal"
        /\ exit_code[p] # None
        /\ The(exit_code[p]) # 0

\* C13 witness: a run came to the Reporter after a failed build with nothing
\* found, the call failed, and the run ended with code 1.
C13_Witness ==
    \E p \in Procs :
        /\ ReportFailed(p)
        /\ The(build_result[p]).returncode # 0
        /\ existing_issues_count[p] = Some(0)
        /\ exit_code[p] = Some(1)

\* C17: a run at the Reporter found nothing in its last search, and it can
\* create its issue whatever the issue index holds by then: nothing is looked
\* up again between the searches and the creation.
C17_ReportNotRechecked ==
    \A p \in Procs :
        pc[p] = "report" =>
            /\ existing_issues_count[p] = Some(0)
            /\ ENABLED CreateIssue(p)

\* C17 witness: two runs with one hash seed saw the same failure, have the
\* same two tags, both slept, both searched twice and found nothing, and both
\* created an issue.
C17_Witness ==
    /\ hashSeed[1] = hashSeed[2]
    /\ logs_tag[1] = logs_tag[2]
    /\ drv_tag[1] = drv_tag[2]
    /\ \A p \in Procs :
         /\ stages[p] = <<"build", "classify", "sleep", "search_logs",
                          "search_drv", "prepare", "report">>
         /\ existing_issues_count[p] = Some(0)
         /\ Issue(p) \in issues

----------------------------------------------------------------------------
(* Claims about the order of the stages, checked under Spec *)

\* the stages of the script in the order of its lines
StageOrder ==
    <<"build", "classify", "sleep", "search_logs", "search_drv", "prepare",
      "report">>

\* C18: the stages a run has gone through are the first ones of the fixed
\* order, each once; a run past the first search found nothing there; a run
\* whose Reporter was invoked has at most one issue, and its build exited
\* non-zero, its error stream has no environmental mark and exactly one
\* failure-marker line, and its last search found nothing.
C18_StagesOnceInOrder ==
    \A p \in Procs :
        /\ IsPrefix(stages[p], StageOrder)
        /\ Cardinality({ i \in issues : i.by = p }) <= 1
        /\ (\E i \in issues : i.by = p) => Len(stages[p]) = 7
        /\ (Len(stages[p]) >= 4 /\ pc[p] # "done") =>
               existing_issues_count[p] = Some(0)
        /\ Len(stages[p]) = 7 =>
               /\ existing_issues_count[p] = Some(0)
               /\ The(build_result[p]).returncode # 0
               /\ ~Environmental(p)
               /\ MarkerCount(p) = 1

\* C18 witness: a run went through every stage once, created its issue and
\* exited.
C18_Witness ==
    \E p \in Procs :
        /\ stages[p] = StageOrder
        /\ pc[p] = "done"
        /\ outcome[p] = "Reported"
        /\ Cardinality({ i \in issues : i.by = p }) = 1

\* C19: a run sleeps only at line 183 and for 0 to 900 seconds; it sleeps at
\* most once and before any search; a run that has come to the searches has
\* slept exactly once; a run that ended as Success, NotReportable or
\* Unclassifiable has not slept.
C19_SleepOnceBeforeSearch ==
    \A p \in Procs :
        LET sleeps == { k \in 1..Len(stages[p]) : stages[p][k] = "sleep" }
            searches == { k \in 1..Len(stages[p]) :
                            stages[p][k] \in {"search_logs", "search_drv"} }
        IN /\ sleeping[p] # None =>
                /\ pc[p] = "sleeping"
                /\ The(sleeping[p]) \in 0..900
           /\ Cardinality(sleeps) <= 1
           /\ \A k \in searches : \E j \in sleeps : j < k
           /\ (pc[p] \in {"search_logs", "search_drv", "prepare", "report", "exit"}
                 \/ searches # {}) =>
                  Cardinality(sleeps) = 1 /\ sleeping[p] = None
           /\ outcome[p] \in {"Success", "NotReportable", "Unclassifiable"} =>
                  sleeps = {} /\ sleeping[p] = None

\* C19 witness: one run is asleep for the longest duration, 900 seconds, and
\* the other has slept once, made its first search and is at the second, or
\* has ended as NotReportable without sleeping.
C19_Witness ==
    \E p \in Procs, q \in Procs :
        /\ pc[p] = "sleeping"
        /\ sleeping[p] = Some(900)
        /\ \/ /\ pc[q] = "search_drv"
              /\ stages[q] = <<"build", "classify", "sleep", "search_logs">>
           \/ /\ outcome[q] = "NotReportable"
              /\ stages[q] = <<"build", "classify">>

----------------------------------------------------------------------------
(* Claims about the substitution passes, checked under SpecNorm *)

\* C9: two excerpts that differ only in timing strings, in the 32-character
\* hash of store paths or in semantic version substrings, reported for the
\* same pname-version, get the same logs tag
C9_VolatileOnlySameLogsTag ==
    tags # None => The(tags)[1] = The(tags)[2]

\* the first line of excerpt i holds a duration split by another duration
Entangled(i) == \E v \in Volatile("split") : Contains(excerpts[i][1], v)

\* C12 as stated: for any excerpt the passes applied to their own output
\* change nothing.
C12_NormalizeIdempotent ==
    repures # None => The(repures) = pures

\* C12 amended: the passes applied to their own output change nothing when no
\* volatile substring of the excerpt lies inside another.
C12_NormalizeIdempotentApart ==
    repures # None =>
        \A i \in 1..2 : ~Entangled(i) => The(repures)[i] = pures[i]

\* C12 witness: both first lines held a duration in seconds and a version,
\* the passes removed text from both, and the second application ran.
C12_Witness ==
    /\ repures # None
    /\ \A i \in 1..2 :
         /\ ~Entangled(i)
         /\ \E v \in Volatile("secs") : Contains(excerpts[i][1], v)
         /\ \E v \in Volatile("semver") : Contains(excerpts[i][1], v)
         /\ Len(pures[i]) < Len(Join(excerpts[i]))
         /\ The(repures)[i] = pures[i]

============================================================================
